---- MODULE Spec2Model ----
(***************************************************************************)
(* Model of wasmedge-ggml/llama-stream/src/main.rs: the interactive chat   *)
(* loop that accumulates a Llama-2 style prompt, streams tokens from the   *)
(* WASI-NN ggml backend one compute_single step at a time and resets the   *)
(* prompt when the backend reports a full context.                         *)
(*                                                                         *)
(* Text is modelled as a sequence of one-character strings, so that        *)
(* formatting, trimming and decoding are computed and not assumed.         *)
(***************************************************************************)
EXTENDS Integers, Sequences, FiniteSets, TLC

\* ------------------------------------------------------------------ bounds
MaxTurns ==
    2

MaxSteps ==
    2

\* ------------------------------------------------------- string literals
system_prompt ==
    <<"Y", "o", "u", " ", "a", "r", "e", " ", "a", " ", "h", "e", "l", "p",
      "f", "u", "l", ",", " ", "r", "e", "s", "p", "e", "c", "t", "f", "u",
      "l", " ", "a", "n", "d", " ", "h", "o", "n", "e", "s", "t", " ", "a",
      "s", "s", "i", "s", "t", "a", "n", "t", ".", " ", "A", "l", "w", "a",
      "y", "s", " ", "a", "n", "s", "w", "e", "r", " ", "a", "s", " ", "s",
      "h", "o", "r", "t", " ", "a", "s", " ", "p", "o", "s", "s", "i", "b",
      "l", "e", ",", " ", "w", "h", "i", "l", "e", " ", "b", "e", "i", "n",
      "g", " ", "s", "a", "f", "e", ".">>

FMT_FIRST_OPEN ==
    <<"[", "I", "N", "S", "T", "]", " ", "<", "<", "S", "Y", "S", ">", ">",
      " ">>

FMT_FIRST_MID ==
    <<" ", "<", "<", "/", "S", "Y", "S", ">", ">", " ">>

FMT_NEXT_OPEN ==
    <<" ", "[", "I", "N", "S", "T", "]", " ">>

FMT_CLOSE ==
    <<" ", "[", "/", "I", "N", "S", "T", "]">>

QUESTION_LABEL ==
    <<"Q", "u", "e", "s", "t", "i", "o", "n", ":">>

ANSWER_LABEL ==
    <<"A", "n", "s", "w", "e", "r", ":">>

MSG_CONTEXT_FULL ==
    <<"\n", "[", "I", "N", "F", "O", "]", " ", "C", "o", "n", "t", "e", "x",
      "t", " ", "f", "u", "l", "l", ",", " ", "w", "e", "'", "l", "l", " ",
      "r", "e", "s", "e", "t", " ", "t", "h", "e", " ", "c", "o", "n", "t",
      "e", "x", "t", " ", "a", "n", "d", " ", "c", "o", "n", "t", "i", "n",
      "u", "e", ".">>

MSG_PROMPT_TOO_LONG ==
    <<"\n", "[", "I", "N", "F", "O", "]", " ", "P", "r", "o", "m", "p", "t",
      " ", "t", "o", "o", " ", "l", "o", "n", "g", ",", " ", "w", "e", "'",
      "l", "l", " ", "r", "e", "s", "e", "t", " ", "t", "h", "e", " ", "c",
      "o", "n", "t", "e", "x", "t", " ", "a", "n", "d", " ", "c", "o", "n",
      "t", "i", "n", "u", "e", ".">>

MSG_ERROR ==
    <<"\n", "[", "E", "R", "R", "O", "R", "]", " ">>

\* ---------------------------------------------------------------- helpers
NL ==
    <<"\n">>

SetMax(S) ==
    CHOOSE x \in S : \A y \in S : y <= x

SetMin(S) ==
    CHOOSE x \in S : \A y \in S : x <= y

\* The characters str::trim removes that occur in the modelled alphabet.
WhiteSpace ==
    {" ", "\t", "\n", "\r"}

\* str::trim: the slice between the first and the last non-whitespace char.
Trim(s) ==
    LET keep == {i \in 1..Len(s) : s[i] \notin WhiteSpace}
    IN  IF keep = {} THEN <<>> ELSE SubSeq(s, SetMin(keep), SetMax(keep))

\* The condition of read_input under which the line is NOT returned.
IsBlankLine_NoCRLF(answer) ==
    answer = <<>> \/ answer = <<"\n">>

IsBlankLine(answer) ==
    answer = <<>> \/ answer = <<"\n">> \/ answer = <<"\r", "\n">>

\* A byte that is not valid UTF-8 on its own, and the replacement character.
InvalidByte ==
    "xFF"

ReplacementChar ==
    "U+FFFD"

NulByte ==
    "x00"

\* String::from_utf8_lossy, byte by byte.
FromUtf8Lossy(bytes) ==
    [i \in 1..Len(bytes) |-> IF bytes[i] = InvalidByte THEN ReplacementChar
                             ELSE bytes[i]]

MAX_OUTPUT_BUFFER_SIZE ==
    4096 * 6

\* n bytes of vec![0u8; ...].
Zeros(n) ==
    [i \in 1..n |-> NulByte]

\* get_data_from_context without the cap on the reported size.
get_data_from_context_NoCap(bytes, size) ==
    LET slice == IF size <= Len(bytes)
                 THEN SubSeq(bytes, 1, size)
                 ELSE bytes \o Zeros(size - Len(bytes))
    IN  FromUtf8Lossy(slice)

\* get_data_from_context: the engine wrote `bytes` at the start of the zeroed
\* buffer and reported `size`; the result is the lossy decoding of the first
\* min(MAX_OUTPUT_BUFFER_SIZE, size) bytes of the buffer.
get_data_from_context(bytes, size) ==
    LET output_size == IF size < MAX_OUTPUT_BUFFER_SIZE THEN size
                       ELSE MAX_OUTPUT_BUFFER_SIZE
        slice == IF output_size <= Len(bytes)
                 THEN SubSeq(bytes, 1, output_size)
                 ELSE bytes \o Zeros(output_size - Len(bytes))
    IN  FromUtf8Lossy(slice)

get_single_output_from_context(bytes, size) ==
    get_data_from_context(bytes, size)

\* Standard output is line buffered: a write makes everything up to its last
\* newline visible and keeps the rest pending.
LineWrite(vis, buf, s) ==
    LET all == buf \o s
        nl  == {i \in 1..Len(all) : all[i] = "\n"}
    IN  IF nl = {} THEN [vis |-> vis, buf |-> all]
        ELSE [vis |-> vis \o SubSeq(all, 1, SetMax(nl)),
              buf |-> SubSeq(all, SetMax(nl) + 1, Len(all))]

\* io::stdout().flush() left out.
Flush_Missing(vis, buf) ==
    [vis |-> vis, buf |-> buf]

\* io::stdout().flush()
Flush(vis, buf) ==
    [vis |-> vis \o buf, buf |-> <<>>]

\* The first-turn format without the system block.
FirstTurnPrompt_NoSys(sys, input) ==
    <<"[", "I", "N", "S", "T", "]", " ">> \o input \o FMT_CLOSE

\* format!("[INST] <<SYS>> {} <</SYS>> {} [/INST]", system_prompt, input)
FirstTurnPrompt(sys, input) ==
    FMT_FIRST_OPEN \o sys \o FMT_FIRST_MID \o input \o FMT_CLOSE

\* The later-turn format with the separating space forgotten.
NextTurnPrompt_NoSpace(saved, input) ==
    saved \o <<"[", "I", "N", "S", "T", "]", " ">> \o input \o FMT_CLOSE

\* The later-turn format with the closing tag forgotten.
NextTurnPrompt_NoClose(saved, input) ==
    saved \o FMT_NEXT_OPEN \o input

\* format!("{} [INST] {} [/INST]", saved_prompt, input)
NextTurnPrompt(saved, input) ==
    saved \o FMT_NEXT_OPEN \o input \o FMT_CLOSE

\* The compute_single results that are not the three named backend errors.
GenericErrors ==
    {"InvalidArgument"}

StopResults ==
    {"EndOfSequence", "ContextFull", "PromptTooLong"} \cup GenericErrors

\* Display of a wasi_nn::Error, kept as one opaque symbol per error.
ErrDisplay(err) ==
    <<err>>

\* The match on compute_single with PromptTooLong falling to the generic arm.
StopsWithReset_OnlyContextFull(result) ==
    result = "ContextFull"

\* The match on compute_single with generic errors resetting as well.
StopsWithReset_AnyError(result) ==
    result # "EndOfSequence"

\* The arms of the match on compute_single that set reset_prompt.
StopsWithReset(result) ==
    result \in {"ContextFull", "PromptTooLong"}

\* The generic arm of the match printing nothing.
StopNotice_SilentError(result) ==
    CASE result = "ContextFull"   -> MSG_CONTEXT_FULL \o NL
      [] result = "PromptTooLong" -> MSG_PROMPT_TOO_LONG \o NL
      [] OTHER                    -> <<>>

\* The notice each stopping arm prints (without println's newline).
StopNotice(result) ==
    CASE result = "EndOfSequence" -> <<>>
      [] result = "ContextFull"   -> MSG_CONTEXT_FULL \o NL
      [] result = "PromptTooLong" -> MSG_PROMPT_TOO_LONG \o NL
      [] OTHER                    -> MSG_ERROR \o ErrDisplay(result) \o NL

\* The generic arm of the match written with expect: it aborts the process.
AfterStop_PanicOnError(r) ==
    IF r \in GenericErrors THEN "panicked" ELSE "update"

\* The generic arm of the match without its break: the loop goes on.
AfterStop_ContinueOnError(r) ==
    IF r \in GenericErrors THEN "compute" ELSE "update"

\* The EndOfSequence arm of the match falling through to the token read.
AfterStop_ReadAfterEOS(r) ==
    IF r = "EndOfSequence" THEN "get" ELSE "update"

\* Every arm of the match for an Err ends in break: main leaves the step
\* loop and goes on to the prompt update.
AfterStop(r) ==
    "update"

\* The result of set_data_to_context dropped instead of expect-ed.
AfterSetInput_IgnoreError(ok) ==
    "compute"

\* .expect("Failed to set input"): an Err aborts the process.
AfterSetInput(ok) ==
    IF ok THEN "compute" ELSE "panicked"

\* The prompt update left out.
UpdatedPrompt_Unchanged(saved, out, reset) ==
    saved

\* The prompt update with the reply appended untrimmed.
UpdatedPrompt_NoTrim(saved, out, reset) ==
    IF reset THEN <<>> ELSE saved \o <<" ">> \o out

\* The prompt update with a reset that keeps the first turn.
UpdatedPrompt_KeepHead(saved, out, reset) ==
    IF reset THEN SubSeq(saved, 1, Len(FMT_FIRST_OPEN))
    ELSE saved \o <<" ">> \o Trim(out)

\* if reset_prompt { clear } else { saved = format!("{} {}", saved, trim) }
UpdatedPrompt(saved, out, reset) ==
    IF reset THEN <<>> ELSE saved \o <<" ">> \o Trim(out)

\* ------------------------------------------------------------ environment
\* Lines that read_line can deliver (the empty one is end of input).
Lines ==
    { <<>>, <<"\n">>, <<"\r", "\n">>,
      <<" ", "\n">>,
      <<" ", "H", "i", "\r", "\n">> }

\* Raw tokens the engine can produce in one compute step.
Tokens ==
    { <<" ", "a">>, <<InvalidByte, "\n">> }

\* What the engine can leave in the output buffer: nothing, short tokens, and
\* buffers filled to the last byte.
BufWrites ==
    { <<>>, <<"a">>, <<" ", "a">>, <<InvalidByte, "\n">>,
      <<"a", InvalidByte, "b">>,
      [i \in 1..MAX_OUTPUT_BUFFER_SIZE |-> "a"],
      [i \in 1..MAX_OUTPUT_BUFFER_SIZE |->
          IF i = MAX_OUTPUT_BUFFER_SIZE THEN InvalidByte ELSE "a"] }

\* The byte counts get_output_single can report.
BufSizes ==
    { 0, 1, 2, 3, MAX_OUTPUT_BUFFER_SIZE - 1, MAX_OUTPUT_BUFFER_SIZE,
      MAX_OUTPUT_BUFFER_SIZE + 1, 2 * MAX_OUTPUT_BUFFER_SIZE }

\* ------------------------------------------------------------------ state
VARIABLES
    pc,            \* position of main in its loop
    answer,        \* read_input: the line read_line delivered last
    input,         \* main: the text read_input returned for this turn
    saved_prompt,  \* main: the accumulated prompt
    output,        \* main: the reply accumulated in this turn
    reset_prompt,  \* main: the flag the overflow arms set
    result,        \* main: what the last compute_single returned
    stdout,        \* text visible on standard output since "Question:"
    stdout_buf,    \* text written to standard output and not yet flushed
    context,       \* main: the execution context handle it holds
    created,       \* engine: handles init_execution_context has returned
    finalized,     \* engine: handles fini_single has been invoked on
    tensor,        \* engine: input tensor 0 of the running compute series
    eng_tokens,    \* engine: raw tokens of the running compute_single series
    last_call,     \* engine: the call it received last
    fini_calls,    \* engine: number of fini_single calls received
    turn,          \* number of turns started (read_input returned)
    prev_prompt,   \* saved_prompt as it was when this turn started
    prev_result,   \* the result that stopped the step loop of the last turn
    overflowed,    \* whether some turn so far stopped on an overflow result
    call_ok,       \* engine: whether the call it received last returned Ok
    written,       \* number of tokens main has printed in this turn
    log,           \* the turns [u, r] put into saved_prompt since it was empty
    gd_bytes,      \* get_data_from_context: bytes the engine left in the buffer
    gd_size,       \* get_data_from_context: the byte count the engine reported
    gd_result      \* get_data_from_context: the string returned

vars ==
    <<pc, answer, input, saved_prompt, output, reset_prompt, result, stdout,
      stdout_buf, context, created, finalized, tensor, eng_tokens, last_call,
      fini_calls, turn, prev_prompt, prev_result, overflowed, call_ok,
      written, log, gd_bytes, gd_size, gd_result>>

\* The variables of a call of get_data_from_context taken on its own.
gdvars ==
    <<gd_bytes, gd_size, gd_result>>

\* One engine call on handle h, noting whether h had been finalized before.
EngineCall(op, h) ==
    [op |-> op, ctx |-> h, fin |-> h \in finalized]

\* The variables of main and of the engine before the first iteration.
MainRest ==
    /\ answer = <<>>
    /\ input = <<>>
    /\ saved_prompt = <<>>
    /\ output = <<>>
    /\ reset_prompt = FALSE
    /\ result = "none"
    /\ stdout = <<>>
    /\ stdout_buf = <<>>
    /\ context = 1
    /\ created = {1}
    /\ finalized = {}
    /\ tensor = <<>>
    /\ eng_tokens = <<>>
    /\ last_call = [op |-> "init_execution_context", ctx |-> 1, fin |-> FALSE]
    /\ fini_calls = 0
    /\ turn = 0
    /\ prev_prompt = <<>>
    /\ prev_result = "none"
    /\ overflowed = FALSE
    /\ call_ok = TRUE
    /\ written = 0
    /\ log = <<>>

Init ==
    /\ pc = "question"
    /\ MainRest
    /\ gd_bytes = <<>>
    /\ gd_size = 0
    /\ gd_result = <<>>

\* println!("Question:") at the top of the loop.
Question ==
    /\ pc = "question"
    /\ turn < MaxTurns
    /\ LET w == LineWrite(<<>>, stdout_buf, QUESTION_LABEL \o NL)
       IN  stdout' = w.vis /\ stdout_buf' = w.buf
    /\ pc' = "read"
    /\ UNCHANGED <<answer, input, saved_prompt, output, reset_prompt, result,
                   context, created, finalized, tensor, eng_tokens, last_call,
                   fini_calls, turn, prev_prompt, prev_result, overflowed,
                   call_ok, written, log>>
    /\ UNCHANGED gdvars

\* One iteration of the loop of read_input: read a line, return it trimmed
\* unless it is empty or a bare line terminator.
ReadInput ==
    /\ pc = "read"
    /\ \E line \in Lines :
          /\ answer' = line
          /\ IF IsBlankLine(line)
             THEN /\ pc' = "read"
                  /\ UNCHANGED <<input, turn, prev_prompt>>
             ELSE /\ input' = Trim(line)
                  /\ turn' = turn + 1
                  /\ prev_prompt' = saved_prompt
                  /\ pc' = "format"
    /\ UNCHANGED <<saved_prompt, output, reset_prompt, result, stdout,
                   stdout_buf, context, created, finalized, tensor,
                   eng_tokens, last_call, fini_calls, prev_result,
                   overflowed, call_ok, written, log>>
    /\ UNCHANGED gdvars

\* The if/else that writes the user turn into saved_prompt.
AppendUserTurn ==
    /\ pc = "format"
    /\ saved_prompt' = IF saved_prompt = <<>>
                       THEN FirstTurnPrompt(system_prompt, input)
                       ELSE NextTurnPrompt(saved_prompt, input)
    /\ pc' = "set_input"
    /\ UNCHANGED <<answer, input, output, reset_prompt, result, stdout,
                   stdout_buf, context, created, finalized, tensor,
                   eng_tokens, last_call, fini_calls, turn, prev_prompt,
                   prev_result, overflowed, call_ok, written, log>>
    /\ UNCHANGED gdvars

\* set_data_to_context(...).expect("Failed to set input"), then the start of
\* the streaming section: output and reset_prompt declared, "Answer:" printed.
SetInput ==
    /\ pc = "set_input"
    /\ last_call' = EngineCall("set_input", context)
    /\ \E ok \in BOOLEAN :
          /\ call_ok' = ok
          /\ pc' = AfterSetInput(ok)
          /\ IF ok
             THEN /\ tensor' = saved_prompt
                  /\ output' = <<>>
                  /\ reset_prompt' = FALSE
                  /\ LET w == LineWrite(stdout, stdout_buf,
                                        ANSWER_LABEL \o NL)
                     IN  stdout' = w.vis /\ stdout_buf' = w.buf
             ELSE UNCHANGED <<tensor, output, reset_prompt, stdout,
                              stdout_buf>>
    /\ UNCHANGED <<answer, input, saved_prompt, result, context, created,
                   finalized, eng_tokens, fini_calls, turn, prev_prompt,
                   prev_result, overflowed, written, log>>
    /\ UNCHANGED gdvars

\* context.compute_single() and the match on its result.
ComputeSingle ==
    /\ pc = "compute"
    /\ last_call' = EngineCall("compute_single", context)
    /\ \/ \E tok \in Tokens :
             /\ Len(eng_tokens) < MaxSteps
             /\ result' = "Ok"
             /\ call_ok' = TRUE
             /\ eng_tokens' = Append(eng_tokens, tok)
             /\ pc' = "get"
             /\ UNCHANGED <<reset_prompt, stdout, stdout_buf, overflowed>>
       \/ \E r \in StopResults :
             /\ result' = r
             /\ call_ok' = FALSE
             /\ reset_prompt' = (reset_prompt \/ StopsWithReset(r))
             /\ LET n == LineWrite(stdout, stdout_buf, StopNotice(r))
                    w == LineWrite(n.vis, n.buf, NL)
                IN  stdout' = w.vis /\ stdout_buf' = w.buf
             /\ overflowed' =
                   (overflowed \/ r \in {"ContextFull", "PromptTooLong"})
             /\ pc' = AfterStop(r)
             /\ UNCHANGED eng_tokens
    /\ UNCHANGED <<answer, input, saved_prompt, output, context, created,
                   finalized, tensor, fini_calls, turn, prev_prompt,
                   prev_result, written, log>>
    /\ UNCHANGED gdvars

\* get_single_output_from_context, print!, flush, output += &token.
GetSingleOutput ==
    /\ pc = "get"
    /\ last_call' = EngineCall("get_output_single", context)
    /\ \E ok \in BOOLEAN :
          /\ call_ok' = ok
          /\ IF ok
             THEN LET bytes == eng_tokens[Len(eng_tokens)]
                      token == get_single_output_from_context(bytes,
                                                              Len(bytes))
                      w     == LineWrite(stdout, stdout_buf, token)
                      f     == Flush(w.vis, w.buf)
                  IN  /\ stdout' = f.vis
                      /\ stdout_buf' = f.buf
                      /\ output' = output \o token
                      /\ written' = written + 1
                      /\ pc' = "compute"
             ELSE /\ pc' = "panicked"
                  /\ UNCHANGED <<stdout, stdout_buf, output, written>>
    /\ UNCHANGED <<answer, input, saved_prompt, reset_prompt, result, context,
                   created, finalized, tensor, eng_tokens, fini_calls, turn,
                   prev_prompt, prev_result, overflowed, log>>
    /\ UNCHANGED gdvars

\* The update of saved_prompt after the step loop.
UpdatePrompt ==
    /\ pc = "update"
    /\ saved_prompt' = UpdatedPrompt(saved_prompt, output, reset_prompt)
    /\ output' = IF reset_prompt THEN output ELSE Trim(output)
    /\ log' = IF reset_prompt THEN <<>>
              ELSE Append(log, [u |-> input, r |-> Trim(output)])
    /\ pc' = "fini"
    /\ UNCHANGED <<answer, input, reset_prompt, result, stdout, stdout_buf,
                   context, created, finalized, tensor, eng_tokens, last_call,
                   fini_calls, turn, prev_prompt, prev_result, overflowed,
                   call_ok, written>>
    /\ UNCHANGED gdvars

\* The end of the iteration with a fresh context made for the next turn.
FiniSingle_Recreate ==
    /\ pc = "fini"
    /\ last_call' = EngineCall("fini_single", context)
    /\ fini_calls' = fini_calls + 1
    /\ finalized' = finalized \cup {context}
    /\ eng_tokens' = <<>>
    /\ tensor' = <<>>
    /\ prev_prompt' = <<>>
    /\ prev_result' = result
    /\ written' = 0
    /\ \E ok \in BOOLEAN :
          /\ call_ok' = ok
          /\ IF ok
             THEN /\ pc' = "question"
                  /\ context' = context + 1
                  /\ created' = created \cup {context + 1}
                  /\ answer' = <<>> /\ input' = <<>> /\ output' = <<>>
                  /\ reset_prompt' = FALSE /\ result' = "none"
             ELSE /\ pc' = "panicked"
                  /\ UNCHANGED <<answer, input, output, reset_prompt, result,
                                 context, created>>
    /\ UNCHANGED <<saved_prompt, stdout, stdout_buf, turn, overflowed, log>>
    /\ UNCHANGED gdvars

\* The end of the iteration with the fini_single call left out.
FiniSingle_Skipped ==
    /\ pc = "fini"
    /\ pc' = "question"
    /\ eng_tokens' = <<>>
    /\ tensor' = <<>>
    /\ prev_prompt' = <<>>
    /\ prev_result' = result
    /\ written' = 0
    /\ answer' = <<>> /\ input' = <<>> /\ output' = <<>>
    /\ reset_prompt' = FALSE /\ result' = "none"
    /\ UNCHANGED <<saved_prompt, stdout, stdout_buf, context, created,
                   finalized, last_call, fini_calls, turn, overflowed,
                   call_ok, log>>
    /\ UNCHANGED gdvars

\* context.fini_single().unwrap() and the end of the loop body, where the
\* locals of the iteration go out of scope; the call ends the engine's
\* compute series together with its input and its tokens.
FiniSingle ==
    /\ pc = "fini"
    /\ last_call' = EngineCall("fini_single", context)
    /\ fini_calls' = fini_calls + 1
    /\ finalized' = finalized \cup {context}
    /\ eng_tokens' = <<>>
    /\ tensor' = <<>>
    /\ prev_prompt' = <<>>
    /\ prev_result' = result
    /\ written' = 0
    /\ \E ok \in BOOLEAN :
          /\ call_ok' = ok
          /\ IF ok
             THEN /\ pc' = "question"
                  /\ answer' = <<>> /\ input' = <<>> /\ output' = <<>>
                  /\ reset_prompt' = FALSE /\ result' = "none"
             ELSE /\ pc' = "panicked"
                  /\ UNCHANGED <<answer, input, output, reset_prompt, result>>
    /\ UNCHANGED <<saved_prompt, stdout, stdout_buf, context, created, turn,
                   overflowed, log>>
    /\ UNCHANGED gdvars

Next ==
    \/ Question
    \/ ReadInput
    \/ AppendUserTurn
    \/ SetInput
    \/ ComputeSingle
    \/ GetSingleOutput
    \/ UpdatePrompt
    \/ FiniSingle

Spec ==
    Init /\ [][Next]_vars

\* main is sequential code: once the step loop has stopped, the prompt
\* update, the fini_single call and the next "Question:" are taken in turn;
\* only read_line and the engine decide what they return.
FairSpec ==
    /\ Spec
    /\ WF_vars(UpdatePrompt)
    /\ WF_vars(FiniSingle)
    /\ WF_vars(Question)

\* ---------------------------------------- get_data_from_context on its own
GdInit ==
    /\ pc = "get_data"
    /\ MainRest
    /\ gd_bytes \in BufWrites
    /\ gd_size \in BufSizes
    /\ gd_result = <<>>

\* One call of get_data_from_context on a buffer the engine has filled.
GetData ==
    /\ pc = "get_data"
    /\ gd_result' = get_data_from_context(gd_bytes, gd_size)
    /\ pc' = "returned"
    /\ UNCHANGED <<answer, input, saved_prompt, output, reset_prompt, result,
                   stdout, stdout_buf, context, created, finalized, tensor,
                   eng_tokens, last_call, fini_calls, turn, prev_prompt,
                   prev_result, overflowed, call_ok, written, log, gd_bytes,
                   gd_size>>

GdNext ==
    GetData

GdSpec ==
    GdInit /\ [][GdNext]_vars

\* ------------------------------------------------- vocabulary of the claims
OverflowResults ==
    {"ContextFull", "PromptTooLong"}

\* Positions of main between a successful set_input and the end of the turn.
Submitted ==
    pc \in {"compute", "get", "update", "fini"}

IsPrefix(p, s) ==
    Len(p) <= Len(s) /\ SubSeq(s, 1, Len(p)) = p

EndsWith(s, t) ==
    Len(t) <= Len(s) /\ SubSeq(s, Len(s) - Len(t) + 1, Len(s)) = t

RECURSIVE Flatten(_)
Flatten(ss) ==
    IF ss = <<>> THEN <<>> ELSE Head(ss) \o Flatten(Tail(ss))

\* r is s with its leading and trailing whitespace, and nothing else, removed.
IsTrimOf(r, s) ==
    \E i \in 0..Len(s) : \E j \in i..Len(s) :
        /\ r = SubSeq(s, i + 1, j)
        /\ \A k \in 1..i : s[k] \in {" ", "\t", "\n", "\r"}
        /\ \A k \in (j + 1)..Len(s) : s[k] \in {" ", "\t", "\n", "\r"}
        /\ r # <<>> => /\ r[1] \notin {" ", "\t", "\n", "\r"}
                       /\ r[Len(r)] \notin {" ", "\t", "\n", "\r"}

\* The tokens of this turn as get_single_output_from_context returns them.
TokensRead(toks) ==
    [i \in 1..Len(toks) |->
        get_single_output_from_context(toks[i], Len(toks[i]))]

NoOverflowSoFar ==
    ~overflowed

ExpectedFirstTurnHead ==
    <<"[", "I", "N", "S", "T", "]", " ", "<", "<", "S", "Y", "S", ">", ">",
      " ", "Y", "o", "u", " ", "a", "r", "e", " ", "a", " ", "h", "e", "l",
      "p", "f", "u", "l", ",", " ", "r", "e", "s", "p", "e", "c", "t", "f",
      "u", "l", " ", "a", "n", "d", " ", "h", "o", "n", "e", "s", "t", " ",
      "a", "s", "s", "i", "s", "t", "a", "n", "t", ".", " ", "A", "l", "w",
      "a", "y", "s", " ", "a", "n", "s", "w", "e", "r", " ", "a", "s", " ",
      "s", "h", "o", "r", "t", " ", "a", "s", " ", "p", "o", "s", "s", "i",
      "b", "l", "e", ",", " ", "w", "h", "i", "l", "e", " ", "b", "e", "i",
      "n", "g", " ", "s", "a", "f", "e", ".", " ", "<", "<", "/", "S", "Y",
      "S", ">", ">", " ">>

ExpectedClose ==
    <<" ", "[", "/", "I", "N", "S", "T", "]">>

ExpectedNextOpen ==
    <<" ", "[", "I", "N", "S", "T", "]", " ">>

ExpectedOpenTag ==
    <<"[", "I", "N", "S", "T", "]", " ">>

ExpectedAnswerHead ==
    <<"Q", "u", "e", "s", "t", "i", "o", "n", ":", "\n", "A", "n", "s", "w",
      "e", "r", ":", "\n">>

\* ------------------------------------------------------------------ claims

\* C1 (as stated): on the first turn the submitted transcript is a preamble
\* followed by "[INST] " + u1 + " [/INST]", the opening tag immediately
\* preceding u1.
C1_TagPrecedesInput ==
    (Submitted /\ turn = 1) =>
        EndsWith(tensor, ExpectedOpenTag \o input \o ExpectedClose)

\* C1 (amended): on the first turn the submitted transcript is exactly
\* "[INST] <<SYS>> " + system prompt + " <</SYS>> " + u1 + " [/INST]": the
\* opening tag comes first, the system block sits inside it and u1 follows
\* the closing "<</SYS>> " marker.
C1_FirstTurnTemplate ==
    (Submitted /\ turn = 1) =>
        tensor = ExpectedFirstTurnHead \o input \o ExpectedClose

C1_Witness ==
    /\ pc = "compute"
    /\ turn = 1
    /\ input = <<"H", "i">>
    /\ Len(tensor) = Len(ExpectedFirstTurnHead) + 2 + Len(ExpectedClose)

\* C2: with no overflow so far, after turn k >= 2 the transcript is the
\* transcript after turn k-1, then " [INST] " + u_k + " [/INST]", then
\* " " + the trimmed reply of turn k; the earlier transcript stays a prefix.
C2_TurnAccumulation ==
    (pc = "fini" /\ turn >= 2 /\ NoOverflowSoFar) =>
        /\ saved_prompt = prev_prompt \o ExpectedNextOpen \o input
                            \o ExpectedClose \o <<" ">> \o output
        /\ IsTrimOf(output, Flatten(TokensRead(eng_tokens)))
        /\ IsPrefix(prev_prompt, saved_prompt)

C2_Witness ==
    /\ pc = "fini"
    /\ turn = 2
    /\ NoOverflowSoFar
    /\ prev_prompt # <<>>
    /\ output = <<"a">>
    /\ input = <<"H", "i">>

\* C3: a turn whose step loop stopped on ContextFull or PromptTooLong leaves
\* the transcript empty, whatever was in it and whatever was streamed; on any
\* other outcome the transcript is not emptied and loses nothing.
C3_OverflowResets ==
    pc = "fini" =>
        /\ result \in OverflowResults => saved_prompt = <<>>
        /\ result \notin OverflowResults =>
              /\ saved_prompt # <<>>
              /\ IsPrefix(tensor, saved_prompt)

C3_Witness ==
    /\ pc = "fini"
    /\ result = "PromptTooLong"
    /\ Len(eng_tokens) = 2
    /\ prev_prompt # <<>>
    /\ saved_prompt = <<>>

\* C4: when a compute step is about to be invoked, every token of the earlier
\* steps is visible on the output, in the order of the steps, and nothing is
\* held back in the buffer; the token of a step is shown before the next step.
C4_StreamingOrder ==
    /\ pc = "compute" =>
          /\ stdout = ExpectedAnswerHead \o Flatten(TokensRead(eng_tokens))
          /\ stdout_buf = <<>>
    /\ pc = "get" =>
          /\ stdout = ExpectedAnswerHead \o Flatten(TokensRead(
                         SubSeq(eng_tokens, 1, Len(eng_tokens) - 1)))
          /\ stdout_buf = <<>>

C4_Witness ==
    /\ pc = "compute"
    /\ eng_tokens = << <<"xFF", "\n">>, <<" ", "a">> >>
    /\ stdout = ExpectedAnswerHead \o <<"U+FFFD", "\n", " ", "a">>

\* C5: fini_single is invoked exactly once in every turn whose step loop
\* stopped, before the next input is read: between turns the number of calls
\* equals the number of turns, inside a turn it is one less.
C5_ReleaseOncePerTurn ==
    /\ pc \in {"question", "read"} =>
          fini_calls = turn
    /\ pc \in {"format", "set_input", "compute", "get", "update", "fini"} =>
          fini_calls = turn - 1

C5_Witness ==
    /\ pc = "read"
    /\ turn = 1
    /\ fini_calls = 1
    /\ prev_result = "InvalidArgument"

\* C6: a line that is empty or only a line terminator starts no turn and
\* changes neither the transcript nor the engine; the first other line is
\* returned with its leading and trailing whitespace removed, and that text
\* is what the turn writes into the transcript.
C6_BlankLineSkip ==
    /\ [][pc = "read" =>
            IF answer' \in {<<>>, <<"\n">>, <<"\r", "\n">>}
            THEN /\ pc' = "read"
                 /\ turn' = turn
                 /\ UNCHANGED <<saved_prompt, input, tensor, eng_tokens,
                                last_call, finalized, created, fini_calls>>
            ELSE /\ pc' = "format"
                 /\ turn' = turn + 1
                 /\ IsTrimOf(input', answer')
                 /\ UNCHANGED <<saved_prompt, tensor, eng_tokens, last_call,
                                finalized, created, fini_calls>>]_vars
    /\ [](pc = "set_input" =>
            /\ IsTrimOf(input, answer)
            /\ EndsWith(saved_prompt, <<" ">> \o input \o ExpectedClose))

C6_Witness ==
    /\ pc = "read"
    /\ turn = 1
    /\ answer = <<"\r", "\n">>
    /\ saved_prompt # <<>>

\* C7: a generic backend error stops the step loop with the overflow flag
\* false; the transcript is not reset and gets " " + the trimmed text of the
\* tokens produced before the error, as after an end of sequence.
C7_GenericErrorCommits ==
    /\ (pc = "update" /\ result \notin ({"EndOfSequence"} \cup OverflowResults))
          => reset_prompt = FALSE
    /\ (pc = "fini" /\ result \notin OverflowResults) =>
          \E r \in {SubSeq(saved_prompt, Len(tensor) + 2, Len(saved_prompt))} :
              /\ saved_prompt = tensor \o <<" ">> \o r
              /\ IsTrimOf(r, Flatten(TokensRead(eng_tokens)))

C7_Witness ==
    /\ pc = "fini"
    /\ result = "InvalidArgument"
    /\ eng_tokens = << <<" ", "a">> >>
    /\ saved_prompt = tensor \o <<" ", "a">>

\* C8: the turn after a turn that ended in overflow submits exactly the
\* first-turn transcript for its input, with nothing of the earlier turns.
C8_FreshAfterReset ==
    (Submitted /\ turn >= 2 /\ prev_result \in OverflowResults) =>
        tensor = ExpectedFirstTurnHead \o input \o ExpectedClose

C8_Witness ==
    /\ pc = "compute"
    /\ turn = 2
    /\ prev_result = "ContextFull"
    /\ tensor = ExpectedFirstTurnHead \o <<"H", "i">> \o ExpectedClose

\* C9: in a turn that does not end in overflow the reply appended to the
\* transcript is the text of the tokens shown on the output in that turn, in
\* order, with the whitespace at the two ends of the whole text removed.
C9_ReplyIsShownText ==
    (pc = "fini" /\ ~reset_prompt) =>
        LET tail  == StopNotice(result) \o <<"\n">>
            shown == SubSeq(stdout, Len(ExpectedAnswerHead) + 1,
                            Len(stdout) - Len(tail))
            reply == SubSeq(saved_prompt, Len(tensor) + 2, Len(saved_prompt))
        IN  /\ stdout = ExpectedAnswerHead \o shown \o tail
            /\ shown = Flatten(TokensRead(eng_tokens))
            /\ saved_prompt = tensor \o <<" ">> \o reply
            /\ IsTrimOf(reply, shown)

C9_Witness ==
    /\ pc = "fini"
    /\ ~reset_prompt
    /\ result = "EndOfSequence"
    /\ eng_tokens = << <<"xFF", "\n">>, <<" ", "a">> >>
    /\ saved_prompt = tensor \o <<" ", "U+FFFD", "\n", " ", "a">>

\* C10 (as stated): no set_input, compute step or token read is invoked on a
\* handle after fini_single has been invoked on that handle.
C10_NoUseAfterRelease ==
    last_call.op \in {"set_input", "compute_single", "get_output_single"} =>
        ~last_call.fin

\* C10 (amended): one execution context is created before the loop and every
\* turn uses it; fini_single is invoked on it at the end of each turn, and
\* from the second turn on set_input, compute steps and token reads are
\* invoked on that same, already finalized context; there is never more than
\* one context.
C10_OneContextReused ==
    /\ created = {context}
    /\ last_call.ctx = context
    /\ last_call.op \in {"set_input", "compute_single", "get_output_single"}
          => (last_call.fin <=> turn >= 2)
    /\ pc \in {"question", "read"} => (finalized = {context} <=> turn >= 1)

C10_Witness ==
    /\ pc = "get"
    /\ turn = 2
    /\ last_call = [op |-> "compute_single", ctx |-> context, fin |-> TRUE]

ExpectedContextFullNotice ==
    <<"\n", "[", "I", "N", "F", "O", "]", " ", "C", "o", "n", "t", "e", "x",
      "t", " ", "f", "u", "l", "l", ",", " ", "w", "e", "'", "l", "l", " ",
      "r", "e", "s", "e", "t", " ", "t", "h", "e", " ", "c", "o", "n", "t",
      "e", "x", "t", " ", "a", "n", "d", " ", "c", "o", "n", "t", "i", "n",
      "u", "e", ".", "\n">>

ExpectedPromptTooLongNotice ==
    <<"\n", "[", "I", "N", "F", "O", "]", " ", "P", "r", "o", "m", "p", "t",
      " ", "t", "o", "o", " ", "l", "o", "n", "g", ",", " ", "w", "e", "'",
      "l", "l", " ", "r", "e", "s", "e", "t", " ", "t", "h", "e", " ", "c",
      "o", "n", "t", "e", "x", "t", " ", "a", "n", "d", " ", "c", "o", "n",
      "t", "i", "n", "u", "e", ".", "\n">>

ExpectedErrorNoticeHead ==
    <<"\n", "[", "E", "R", "R", "O", "R", "]", " ">>

ExpectedQuestionLine ==
    <<"Q", "u", "e", "s", "t", "i", "o", "n", ":", "\n">>

\* C11: a compute step that stops the turn, whatever it returned, never ends
\* the process: the turn ends exactly when the step does not succeed, and as
\* long as fini_single succeeds main gets back to reading the next input.
C11_StopLeadsToNextRead ==
    /\ [](pc = "panicked" =>
            last_call.op \in {"set_input", "get_output_single", "fini_single"})
    /\ [][pc = "compute" => (pc' = "update" <=> result' # "Ok")]_vars
    /\ (pc = "update" /\ turn < MaxTurns)
          ~> (pc = "read" \/ (pc = "panicked" /\ last_call.op = "fini_single"))

C11_Witness ==
    /\ pc = "read"
    /\ turn = 1
    /\ prev_result = "PromptTooLong"
    /\ last_call.op = "fini_single"
    /\ call_ok

\* C12: when set_input returns an error the process aborts there: no compute
\* step has been invoked, no token and no "Answer:" label has been written,
\* and nothing happens afterwards.
C12_SetInputFailureAborts ==
    /\ []((last_call.op = "set_input" /\ ~call_ok) =>
            /\ pc = "panicked"
            /\ eng_tokens = <<>>
            /\ written = 0
            /\ stdout = ExpectedQuestionLine
            /\ stdout_buf = <<>>)
    /\ [][pc = "panicked" => FALSE]_vars

C12_Witness ==
    /\ pc = "panicked"
    /\ last_call.op = "set_input"
    /\ ~call_ok
    /\ turn = 2

\* C13 (as stated): the release of turn k precedes the transcript update of
\* turn k, so once the transcript has been updated fini_single has been
\* invoked for the turn.
C13_ReleaseBeforeUpdate ==
    pc = "fini" => fini_calls = turn

\* C13 (amended): the transcript update of turn k comes first and fini_single
\* is invoked after it, as the last statement of the loop body and before the
\* next input is read: when fini_single is invoked the transcript already has
\* its value for the turn, and the call does not change it.
C13_UpdateBeforeRelease ==
    /\ [](pc = "update" => (fini_calls = turn - 1 /\ saved_prompt = tensor))
    /\ [][fini_calls' # fini_calls =>
            /\ pc = "fini"
            /\ saved_prompt' = saved_prompt
            /\ saved_prompt = IF result \in OverflowResults THEN <<>>
                              ELSE tensor \o <<" ">> \o output]_vars

C13_Witness ==
    /\ pc = "question"
    /\ turn = 1
    /\ fini_calls = 1
    /\ saved_prompt # <<>>
    /\ last_call.op = "fini_single"

\* C14: the step loop runs while compute steps succeed and is left on the
\* first one that does not; after that no compute step and no token read is
\* made in the turn, and the overflow flag is set exactly when the stopping
\* result was ContextFull or PromptTooLong.
C14_StepLoopMachine ==
    /\ pc = "compute" => result \in {"none", "Ok"}
    /\ pc = "get" =>
          (result = "Ok" /\ last_call.op = "compute_single" /\ call_ok)
    /\ pc \in {"update", "fini"} =>
          /\ result \in {"EndOfSequence", "ContextFull", "PromptTooLong",
                         "InvalidArgument"}
          /\ last_call.op = "compute_single"
          /\ ~call_ok
          /\ reset_prompt <=> result \in {"ContextFull", "PromptTooLong"}

C14_Witness ==
    /\ pc = "update"
    /\ result = "ContextFull"
    /\ reset_prompt
    /\ Len(eng_tokens) = 1

RECURSIVE ExpectedTranscript(_)
\* The text the turns l give in the Llama-2 chat layout the program writes.
ExpectedTranscript(l) ==
    IF l = <<>> THEN <<>>
    ELSE LET k == Len(l)
             t == l[k]
         IN  IF k = 1
             THEN ExpectedFirstTurnHead \o t.u \o ExpectedClose
                    \o <<" ">> \o t.r
             ELSE ExpectedTranscript(SubSeq(l, 1, k - 1)) \o ExpectedNextOpen
                    \o t.u \o ExpectedClose \o <<" ">> \o t.r

\* Positions in s where the text t occurs.
Occurrences(t, s) ==
    {i \in 1..(Len(s) - Len(t) + 1) : SubSeq(s, i, i + Len(t) - 1) = t}

\* In s every "[INST]" is followed by a "[/INST]" before the next "[INST]",
\* and no "[/INST]" comes without an open "[INST]".
TagsAlternate(s) ==
    LET opens  == Occurrences(<<"[", "I", "N", "S", "T", "]">>, s)
        closes == Occurrences(<<"[", "/", "I", "N", "S", "T", "]">>, s)
    IN  /\ Cardinality(opens) = Cardinality(closes)
        /\ \A o \in opens :
              \E c \in closes :
                 /\ c > o
                 /\ \A x \in opens \cup closes : ~(o < x /\ x < c)

\* C15 (as stated): a non-empty transcript at a turn boundary starts with the
\* system preamble and after the preamble comes the first tagged user turn
\* "[INST] " + u1 + " [/INST]".
C15_PreambleThenTaggedTurns ==
    (pc \in {"question", "read"} /\ saved_prompt # <<>>) =>
        \E n \in Len(system_prompt)..Len(saved_prompt) :
            /\ Occurrences(system_prompt, SubSeq(saved_prompt, 1, n)) # {}
            /\ n + 1 \in Occurrences(
                  ExpectedOpenTag \o log[1].u \o ExpectedClose, saved_prompt)

\* C15 (amended): at every turn boundary the transcript is empty or is
\* "[INST] <<SYS>> " + system prompt + " <</SYS>> " + u1 + " [/INST] " + r1
\* followed, for each later turn since the transcript was last empty, by
\* " [INST] " + u + " [/INST] " + r in turn order: the system prompt is
\* written once, inside the instruction tag of the first turn, and every tag
\* the program wrote is closed before the next one opens.  The transcript is
\* empty only before the first turn and right after a turn that overflowed.
C15_TranscriptWellFormed ==
    pc \in {"question", "read"} =>
        /\ saved_prompt = ExpectedTranscript(log)
        /\ TagsAlternate(saved_prompt)
        /\ saved_prompt # <<>> =>
              /\ IsPrefix(ExpectedFirstTurnHead, saved_prompt)
              /\ Cardinality(Occurrences(system_prompt, saved_prompt)) = 1
        /\ saved_prompt = <<>> <=>
              (turn = 0 \/ prev_result \in OverflowResults)

C15_Witness ==
    /\ pc = "question"
    /\ Len(log) = 2
    /\ log[2].u = <<"H", "i">>
    /\ log[2].r = <<"a">>
    /\ saved_prompt # <<>>

\* The notice each stopping result is reported with.
ExpectedNotice(r) ==
    CASE r = "EndOfSequence" -> <<>>
      [] r = "ContextFull"   -> ExpectedContextFullNotice
      [] r = "PromptTooLong" -> ExpectedPromptTooLongNotice
      [] OTHER               -> ExpectedErrorNoticeHead \o <<r, "\n">>

\* C16: a turn that stops on ContextFull, PromptTooLong or a generic error
\* has its notice on the output, after the tokens, when the step loop is
\* left; a turn that stops on EndOfSequence has none.
C16_NoticeOnEveryError ==
    pc \in {"update", "fini"} =>
        /\ stdout = ExpectedAnswerHead \o Flatten(TokensRead(eng_tokens))
                      \o ExpectedNotice(result) \o <<"\n">>
        /\ stdout_buf = <<>>

C16_Witness ==
    /\ pc = "update"
    /\ result = "InvalidArgument"
    /\ eng_tokens = << <<" ", "a">> >>
    /\ EndsWith(stdout, ExpectedErrorNoticeHead
                          \o <<"InvalidArgument", "\n", "\n">>)

C18_InputNeverEmpty ==
    pc \in {"format", "set_input", "compute", "get", "update", "fini"} =>
        input # <<>>

\* C19: one token is read and written after each successful compute step and
\* none after a step that did not succeed, so the tokens written in a turn
\* are as many as its successful compute steps, and none if the first fails.
C19_OneReadPerStep ==
    /\ pc \in {"compute", "update", "fini"} => written = Len(eng_tokens)
    /\ pc = "get" =>
          (written = Len(eng_tokens) - 1 /\ result = "Ok" /\ call_ok)
    /\ last_call.op = "get_output_single" => pc \in {"compute", "panicked"}
    /\ (pc \in {"update", "fini"} /\ eng_tokens = <<>>) =>
          (written = 0 /\ output = <<>>)

C19_Witness ==
    /\ pc = "update"
    /\ result = "EndOfSequence"
    /\ written = 2
    /\ Len(eng_tokens) = 2

====
